---- MODULE Spec2Model ----
(***************************************************************************)
(* Model of CLIPlayer.py: the AudioPlayer controller, the AudioPlayerUI    *)
(* handlers that drive it, and the pygame.mixer.music backend they call.   *)
(*                                                                         *)
(* Paths and file names are sequences of character codes, so that          *)
(* list.sort() is a real lexicographic sort.  The volume is held in tenths *)
(* (1.0 is 10, the 0.1 step of the volume buttons is 1).  Positions are    *)
(* in milliseconds, as pygame.mixer.music.get_pos() returns them.          *)
(***************************************************************************)
EXTENDS Integers, Sequences, FiniteSets, TLC

\* ---------------------------------------------------------------- bounds
MaxFiles == 2      \* audio files the scanned directory can hold
VolOver == 2       \* how far outside [0.0, 1.0] a set_volume argument goes
MaxTicks == 1      \* clock ticks a track lasts at most

\* ------------------------------------------------------ program constants
VolMin == 0        \* 0.0
VolMax == 10       \* 1.0
VolStep == 1       \* 0.1
SeekSeconds == 10  \* the left / right keys
TickMs == 5000     \* granularity of the playback clock
PosUnset == -1     \* get_pos() before the music was started

\* character codes
Sep == 0           \* os.sep
Dot == 1
ExtMp3 == 2        \* an extension of the allow-list
ExtTxt == 3        \* an extension outside it
DirChar == 4       \* the directory's name
StemBase == 10     \* stems are StemBase + 1 .. StemBase + MaxFiles

None == <<>>       \* Python's None (falsy, like the empty string)

NoFault == "none"

VARIABLES
    current_file,   \* AudioPlayer.current_file
    paused,         \* AudioPlayer.paused
    volume,         \* AudioPlayer.volume, in tenths
    repeat,         \* AudioPlayer.repeat
    shuffle,        \* AudioPlayer.shuffle
    playlist,       \* AudioPlayer.playlist
    current_index,  \* AudioPlayer.current_index
    file_list,      \* AudioPlayerUI.file_list: the labels of the file buttons
    status,         \* AudioPlayerUI.status: what update_status last wrote
    m_loaded,       \* pygame.mixer.music: the music loaded, or None
    m_state,        \* pygame.mixer.music: "idle", "playing" or "paused"
    m_volume,       \* pygame.mixer.music: the volume, in tenths
    m_pos,          \* pygame.mixer.music: milliseconds played, or PosUnset
    calls,          \* commands the last step sent to pygame.mixer.music
    fault,          \* the exception the last step raised, or NoFault
    result,         \* what the last step returned
    running         \* the urwid main loop is running

vars == <<current_file, paused, volume, repeat, shuffle, playlist,
          current_index, file_list, status, m_loaded, m_state, m_volume,
          m_pos, calls, fault, result, running>>

\* ------------------------------------------------------------ sequences
Range(s) == {s[i] : i \in DOMAIN s}

Min(a, b) == IF a < b THEN a ELSE b

Max(a, b) == IF a > b THEN a ELSE b

\* a mod b as Python computes it for b > 0
PyMod(a, b) == a % b

\* str.__lt__: code point by code point, a proper prefix sorts first
RECURSIVE StrLess(_, _)
StrLess(s, t) ==
    IF t = <<>> THEN FALSE
    ELSE IF s = <<>> THEN TRUE
    ELSE IF Head(s) /= Head(t) THEN Head(s) < Head(t)
    ELSE StrLess(Tail(s), Tail(t))

\* insertion of x into the sorted sequence s, after its equals (stable)
RECURSIVE InsertSorted(_, _)
InsertSorted(x, s) ==
    IF s = <<>> THEN <<x>>
    ELSE IF StrLess(x, Head(s)) THEN <<x>> \o s
    ELSE <<Head(s)>> \o InsertSorted(x, Tail(s))

\* list.sort() on a list of str
RECURSIVE ListSort(_)
ListSort(s) ==
    IF s = <<>> THEN <<>>
    ELSE InsertSorted(s[Len(s)], ListSort(SubSeq(s, 1, Len(s) - 1)))

\* the orders random.shuffle can leave s in
Shuffles(s) ==
    {[i \in DOMAIN s |-> s[p[i]]] :
        p \in {q \in [DOMAIN s -> DOMAIN s] : Range(q) = DOMAIN s}}

\* ------------------------------------------------------------- os.path
\* os.path.join(directory, f)
join(d, f) == d \o <<Sep>> \o f

\* os.path.basename(p): what follows the last separator
RECURSIVE basename(_)
basename(p) ==
    IF p = <<>> THEN <<>>
    ELSE IF p[Len(p)] = Sep THEN <<>>
    ELSE basename(SubSeq(p, 1, Len(p) - 1)) \o <<p[Len(p)]>>

directory == <<DirChar>>

\* ---------------------------------------------------- directory contents
AudioName(i) == <<StemBase + i, Dot, ExtMp3>>

OtherName == <<StemBase + 1, Dot, ExtTxt>>

\* the directories scanned: the first k audio files, with or without a file
\* that is no audio file
Directories ==
    {{AudioName(i) : i \in 1..k} \cup other :
        k \in 0..MaxFiles, other \in {{}, {OtherName}}}

\* what os.listdir can return: the entries of the directory, in any order
Listings ==
    UNION {{l \in [1..Cardinality(d) -> d] : Range(l) = d} : d \in Directories}

\* f.lower().endswith(('.mp3', '.wav', '.flac'))
IsAudio(f) == Len(f) >= 2 /\ f[Len(f) - 1] = Dot /\ f[Len(f)] = ExtMp3

RECURSIVE Filter(_)
Filter(l) ==
    IF l = <<>> THEN <<>>
    ELSE IF IsAudio(Head(l)) THEN <<Head(l)>> \o Filter(Tail(l))
    ELSE Filter(Tail(l))

RECURSIVE JoinAll(_)
JoinAll(l) ==
    IF l = <<>> THEN <<>> ELSE <<join(directory, Head(l))>> \o JoinAll(Tail(l))

\* get_audio_files(directory), given what os.listdir returned
get_audio_files(listing) == JoinAll(Filter(listing))

\* a path no file is at
Missing == join(directory, <<StemBase, Dot, ExtMp3>>)

\* ------------------------------------------------------------ the state
\* the AudioPlayer, the status line and the mixer, as one value
S == [current_file |-> current_file, paused |-> paused, volume |-> volume,
      repeat |-> repeat, shuffle |-> shuffle, playlist |-> playlist,
      current_index |-> current_index, status |-> status,
      m_loaded |-> m_loaded, m_state |-> m_state, m_volume |-> m_volume,
      m_pos |-> m_pos, calls |-> <<>>, fault |-> NoFault, result |-> "None"]

\* a command sent to the mixer, with its numeric argument (0 when it has none)
Call(cmd, arg) == [cmd |-> cmd, arg |-> arg]

Sent(s, cmd, arg) == [s EXCEPT !.calls = Append(@, Call(cmd, arg))]

Raise(s, e) == [s EXCEPT !.fault = e]

\* ------------------------------------------------- pygame.mixer.music
\* music.load(filename): ok says whether the file can be opened and decoded.
\* A load that succeeds frees the music loaded before, which halts it; a load
\* that fails raises pygame.error and leaves the mixer as it was.
music_load(s, filename, ok) ==
    LET t == Sent(s, "load", 0) IN
    IF ok THEN [t EXCEPT !.m_loaded = filename, !.m_state = "idle"]
    ELSE Raise(t, "pygame.error")

\* music.play(): raises pygame.error when no music is loaded
music_play(s) ==
    LET t == Sent(s, "play", 0) IN
    IF s.m_loaded = None THEN Raise(t, "pygame.error")
    ELSE [t EXCEPT !.m_state = "playing", !.m_pos = 0]

\* music.unpause(): resumes a paused stream, and nothing else
music_unpause(s) ==
    LET t == Sent(s, "unpause", 0) IN
    IF s.m_state = "paused" THEN [t EXCEPT !.m_state = "playing"] ELSE t

\* music.pause()
music_pause(s) ==
    LET t == Sent(s, "pause", 0) IN
    IF s.m_state = "playing" THEN [t EXCEPT !.m_state = "paused"] ELSE t

\* music.stop()
music_stop(s) ==
    [Sent(s, "stop", 0) EXCEPT !.m_state = "idle", !.m_pos = PosUnset]

\* music.get_busy(): the stream is actively playing
music_get_busy(s) == s.m_state = "playing"

\* music.set_volume(v)
music_set_volume(s, v) == [Sent(s, "set_volume", v) EXCEPT !.m_volume = v]

\* music.get_pos(), in milliseconds
music_get_pos(s) == s.m_pos

\* music.set_pos(p): raises pygame.error when no stream is playing or paused,
\* and when the codec cannot seek (ok is FALSE)
music_set_pos(s, p, ok) ==
    LET t == Sent(s, "set_pos", p) IN
    IF s.m_state = "idle" \/ ~ok THEN Raise(t, "pygame.error") ELSE t

\* -------------------------------------------------------- AudioPlayer
\* load with current_file assigned before the mixer has accepted the file
load_AssignFirst(s, filename, ok) ==
    LET t == music_load([s EXCEPT !.current_file = filename], filename, ok) IN
    IF t.fault /= NoFault
    THEN [t EXCEPT !.fault = NoFault, !.result = "False"]
    ELSE [music_set_volume(t, t.volume) EXCEPT !.result = "True"]

load(s, filename, ok) ==
    LET t == music_load(s, filename, ok) IN
    IF t.fault /= NoFault
    THEN [t EXCEPT !.fault = NoFault, !.result = "False"]
    ELSE [music_set_volume([t EXCEPT !.current_file = filename], t.volume)
             EXCEPT !.result = "True"]

play(s) ==
    IF s.paused
    THEN [music_unpause(s) EXCEPT !.paused = FALSE]
    ELSE LET t == music_play(s) IN
         IF t.fault /= NoFault THEN t ELSE [t EXCEPT !.paused = FALSE]

\* pause without asking the mixer whether it is playing
pause_Unchecked(s) ==
    IF ~s.paused
    THEN [music_pause(s) EXCEPT !.paused = TRUE]
    ELSE s

pause(s) ==
    IF music_get_busy(s) /\ ~s.paused
    THEN [music_pause(s) EXCEPT !.paused = TRUE]
    ELSE s

\* stop that leaves the paused flag as it was
stop_KeepPaused(s) == music_stop(s)

stop(s) == [music_stop(s) EXCEPT !.paused = FALSE]

is_playing(s) == music_get_busy(s)

\* set_volume that keeps the clamped level and hands the mixer the argument
set_volume_ForwardRaw(s, v) ==
    LET w == Max(VolMin, Min(VolMax, v)) IN
    music_set_volume([s EXCEPT !.volume = w], v)

\* set_volume clamped at the top only
set_volume_NoClamp(s, v) ==
    LET w == Min(VolMax, v) IN
    music_set_volume([s EXCEPT !.volume = w], w)

set_volume(s, v) ==
    LET w == Max(VolMin, Min(VolMax, v)) IN
    music_set_volume([s EXCEPT !.volume = w], w)

\* seek that hands the mixer the position as computed, below zero or not
seek_NoClamp(s, seconds, ok) ==
    IF s.current_file /= None
    THEN LET current_pos == music_get_pos(s)
             new_pos == current_pos + seconds * 1000
         IN  music_set_pos(s, new_pos, ok)
    ELSE s

\* seconds is whole; the position handed to set_pos is kept in milliseconds
seek(s, seconds, ok) ==
    IF s.current_file /= None
    THEN LET current_pos == music_get_pos(s)
             new_pos == Max(0, current_pos + seconds * 1000)
         IN  music_set_pos(s, new_pos, ok)
    ELSE s

toggle_repeat(s) == [s EXCEPT !.repeat = ~s.repeat]

\* toggle_shuffle that points current_index at the head of the new order
toggle_shuffle_Resync(s, perm) ==
    LET t == [s EXCEPT !.shuffle = ~s.shuffle, !.current_index = 0] IN
    IF t.shuffle THEN [t EXCEPT !.playlist = perm]
    ELSE [t EXCEPT !.playlist = ListSort(t.playlist)]

\* toggle_shuffle that draws every slot of the new order from the same track
toggle_shuffle_Sample(s, perm) ==
    LET t == [s EXCEPT !.shuffle = ~s.shuffle] IN
    IF t.shuffle
    THEN [t EXCEPT !.playlist = [i \in DOMAIN perm |-> perm[1]]]
    ELSE [t EXCEPT !.playlist = ListSort(t.playlist)]

\* toggle_shuffle that leaves the shuffled order in place when switched off
toggle_shuffle_NoSort(s, perm) ==
    LET t == [s EXCEPT !.shuffle = ~s.shuffle] IN
    IF t.shuffle THEN [t EXCEPT !.playlist = perm] ELSE t

\* perm is the order random.shuffle leaves the list in
toggle_shuffle(s, perm) ==
    LET t == [s EXCEPT !.shuffle = ~s.shuffle] IN
    IF t.shuffle THEN [t EXCEPT !.playlist = perm]
    ELSE [t EXCEPT !.playlist = ListSort(t.playlist)]

\* next_track that loads the track under current_index without advancing
next_track_Stay(s, r, ok) ==
    LET n == Len(s.playlist) IN
    IF n = 0
    THEN Raise(s, IF s.shuffle THEN "ValueError" ELSE "ZeroDivisionError")
    ELSE LET i == IF s.shuffle THEN r ELSE s.current_index
             t == [s EXCEPT !.current_index = i]
             u == load(t, t.playlist[i + 1], ok)
         IN  play([u EXCEPT !.result = "None"])

\* next_track that steps past the last track: indexing the playlist then
\* raises IndexError, after current_index was assigned
next_track_NoWrap(s, r, ok) ==
    LET n == Len(s.playlist) IN
    IF s.shuffle /\ n = 0 THEN Raise(s, "ValueError")
    ELSE LET i == IF s.shuffle THEN r ELSE s.current_index + 1
             t == [s EXCEPT !.current_index = i]
         IN  IF i >= n THEN Raise(t, "IndexError")
             ELSE play([load(t, t.playlist[i + 1], ok) EXCEPT !.result = "None"])

\* r is the index random.randint(0, len - 1) draws; on an empty playlist
\* randint raises ValueError (empty range) and % raises ZeroDivisionError,
\* both before current_index is assigned
next_track(s, r, ok) ==
    LET n == Len(s.playlist) IN
    IF n = 0
    THEN Raise(s, IF s.shuffle THEN "ValueError" ELSE "ZeroDivisionError")
    ELSE LET i == IF s.shuffle THEN r ELSE PyMod(s.current_index + 1, n)
             t == [s EXCEPT !.current_index = i]
             u == load(t, t.playlist[i + 1], ok)
         IN  play([u EXCEPT !.result = "None"])

previous_track(s, r, ok) ==
    LET n == Len(s.playlist) IN
    IF n = 0
    THEN Raise(s, IF s.shuffle THEN "ValueError" ELSE "ZeroDivisionError")
    ELSE LET i == IF s.shuffle THEN r ELSE PyMod(s.current_index - 1, n)
             t == [s EXCEPT !.current_index = i]
             u == load(t, t.playlist[i + 1], ok)
         IN  play([u EXCEPT !.result = "None"])

\* ------------------------------------------------------ AudioPlayerUI
\* StatusOf naming the track under current_index, not the file loaded
StatusOf_ByIndex(s) ==
    [phase |-> IF s.paused THEN "Paused"
               ELSE IF is_playing(s) THEN "Playing"
               ELSE "Stopped",
     file |-> IF s.current_file /= None /\ s.playlist /= <<>>
              THEN basename(s.playlist[s.current_index + 1])
              ELSE None]

\* StatusOf asking the mixer before looking at the paused flag
StatusOf_ProbeFirst(s) ==
    [phase |-> IF is_playing(s) THEN "Playing"
               ELSE IF s.paused THEN "Paused"
               ELSE "Stopped",
     file |-> IF s.current_file /= None THEN basename(s.current_file) ELSE None]

\* the fragments update_status joins: the phase, and the file's base name
\* when current_file is set
StatusOf(s) ==
    [phase |-> IF s.paused THEN "Paused"
               ELSE IF is_playing(s) THEN "Playing"
               ELSE "Stopped",
     file |-> IF s.current_file /= None THEN basename(s.current_file) ELSE None]

update_status(s) == [s EXCEPT !.status = StatusOf(s)]

on_file_select(s, label, ok) ==
    LET filename == join(directory, label)
        t == load(s, filename, ok)
    IN  IF t.result = "True"
        THEN LET u == play([t EXCEPT !.result = "None"]) IN
             IF u.fault /= NoFault THEN u ELSE update_status(u)
        ELSE [t EXCEPT !.result = "None"]

on_play_pause(s) ==
    IF s.current_file /= None
    THEN LET t == IF s.paused \/ ~is_playing(s) THEN play(s) ELSE pause(s) IN
         IF t.fault /= NoFault THEN t ELSE update_status(t)
    ELSE s

on_stop(s) == update_status(stop(s))

on_repeat(s) == toggle_repeat(s)

on_shuffle(s, perm) == toggle_shuffle(s, perm)

on_volume_up(s) == update_status(set_volume(s, s.volume + VolStep))

on_volume_down(s) == update_status(set_volume(s, s.volume - VolStep))

QuitKeys == {"q", "Q"}
StopKeys == {"s", "S"}
PlayKeys == {"p", "P"}
RepeatKeys == {"r", "R"}
ShuffleKeys == {"m", "M"}
Keys == QuitKeys \cup StopKeys \cup PlayKeys \cup RepeatKeys \cup ShuffleKeys
            \cup {"left", "right", "x"}

\* handle_input(key); quitting raises urwid.ExitMainLoop
handle_input(s, key, perm, ok) ==
    IF key \in QuitKeys THEN Raise(s, "ExitMainLoop")
    ELSE IF key \in StopKeys THEN on_stop(s)
    ELSE IF key \in PlayKeys THEN on_play_pause(s)
    ELSE IF key = "left" THEN seek(s, -SeekSeconds, ok)
    ELSE IF key = "right" THEN seek(s, SeekSeconds, ok)
    ELSE IF key \in RepeatKeys THEN on_repeat(s)
    ELSE IF key \in ShuffleKeys THEN on_shuffle(s, perm)
    ELSE s

\* ------------------------------------------------------------- actions
\* AudioPlayerUI.__init__ over a fresh AudioPlayer and a mixer just initialised
Init ==
    \E listing \in Listings :
        /\ current_file = None
        /\ paused = FALSE
        /\ volume = VolMax
        /\ repeat = FALSE
        /\ shuffle = FALSE
        /\ playlist = get_audio_files(listing)
        /\ current_index = 0
        /\ file_list = Filter(listing)
        /\ status = [phase |-> "Stopped", file |-> None]
        /\ m_loaded = None
        /\ m_state = "idle"
        /\ m_volume = VolMax
        /\ m_pos = PosUnset
        /\ calls = <<>>
        /\ fault = NoFault
        /\ result = "None"
        /\ running = TRUE

\* the state after an operation that left the player and mixer as t
Commit(t, run) ==
    /\ current_file' = t.current_file
    /\ paused' = t.paused
    /\ volume' = t.volume
    /\ repeat' = t.repeat
    /\ shuffle' = t.shuffle
    /\ playlist' = t.playlist
    /\ current_index' = t.current_index
    /\ status' = t.status
    /\ m_loaded' = t.m_loaded
    /\ m_state' = t.m_state
    /\ m_volume' = t.m_volume
    /\ m_pos' = t.m_pos
    /\ calls' = t.calls
    /\ fault' = t.fault
    /\ result' = t.result
    /\ running' = run
    /\ UNCHANGED file_list

\* a method of the AudioPlayer called directly: an exception goes to the caller
Method(t) == running /\ Commit(t, TRUE)

\* a callback run by the urwid main loop: an exception ends the loop
Callback(t) == running /\ Commit(t, t.fault = NoFault)

RandIndex == IF playlist = <<>> THEN {0} ELSE 0..(Len(playlist) - 1)

LoadPaths == Range(playlist) \cup {Missing}

\* the arguments of set_volume: every level, and VolOver beyond each end
VolumeArgs == (VolMin - VolOver)..(VolMax + VolOver)

\* the arguments at and beyond the two ends of the range
EdgeVolumes == {VolMin - VolOver, VolMin, VolMax, VolMax + VolOver}

Load ==
    \E f \in LoadPaths, ok \in BOOLEAN :
        (f = Missing => ~ok) /\ Method(load(S, f, ok))

Play == Method(play(S))

Pause == Method(pause(S))

Stop == Method(stop(S))

SetVolumeIn(args) == \E v \in args : Method(set_volume(S, v))

SetVolume == SetVolumeIn(EdgeVolumes)

SetVolumeAny == SetVolumeIn(VolumeArgs)

Seek ==
    \E d \in {-SeekSeconds, SeekSeconds}, ok \in BOOLEAN :
        Method(seek(S, d, ok))

ToggleRepeat == Method(toggle_repeat(S))

ToggleShuffle ==
    \E perm \in Shuffles(playlist) :
        Method(toggle_shuffle(S, perm))

NextTrack ==
    \E r \in RandIndex, ok \in BOOLEAN :
        Method(next_track(S, r, ok))

PreviousTrack ==
    \E r \in RandIndex, ok \in BOOLEAN :
        Method(previous_track(S, r, ok))

OnFileSelect ==
    \E label \in Range(file_list), ok \in BOOLEAN :
        Callback(on_file_select(S, label, ok))

OnPlayPause == Callback(on_play_pause(S))

OnStop == Callback(on_stop(S))

OnRepeat == Callback(on_repeat(S))

OnShuffle ==
    \E perm \in Shuffles(playlist) :
        Callback(on_shuffle(S, perm))

OnVolumeUp == Callback(on_volume_up(S))

OnVolumeDown == Callback(on_volume_down(S))

HandleInput ==
    \E key \in Keys :
        \E perm \in IF key \in ShuffleKeys THEN Shuffles(playlist)
                     ELSE {playlist},
           ok \in IF key \in {"left", "right"} THEN BOOLEAN ELSE {TRUE} :
            Callback(handle_input(S, key, perm, ok))

\* what a step of the mixer's own thread leaves of the last operation: nothing
NoOperation == calls' = <<>> /\ fault' = NoFault /\ result' = "None"

\* the mixer's clock: get_pos() counts the time since play() that was not
\* spent paused, until the stream ends or is stopped
Tick ==
    /\ running
    /\ m_pos /= PosUnset
    /\ m_state /= "paused"
    /\ m_pos + TickMs <= MaxTicks * TickMs
    /\ m_pos' = m_pos + TickMs
    /\ NoOperation
    /\ UNCHANGED <<current_file, paused, volume, repeat, shuffle, playlist,
                   current_index, file_list, status, m_loaded, m_state,
                   m_volume, running>>

\* the stream reaches its end
TrackEnds ==
    /\ running
    /\ m_state = "playing"
    /\ m_state' = "idle"
    /\ m_pos' = PosUnset
    /\ NoOperation
    /\ UNCHANGED <<current_file, paused, volume, repeat, shuffle, playlist,
                   current_index, file_list, status, m_loaded, m_volume,
                   running>>

\* the AudioPlayer driven through its methods; the volume is set to the ends
\* of its range here, and to every level under SpecVolume
Next ==
    \/ Load \/ Play \/ Pause \/ Stop \/ SetVolume \/ Seek
    \/ ToggleRepeat \/ ToggleShuffle \/ NextTrack \/ PreviousTrack
    \/ Tick \/ TrackEnds

Spec == Init /\ [][Next]_vars

\* the application: the urwid main loop running the callbacks of AudioPlayerUI
NextUI ==
    \/ OnFileSelect \/ OnPlayPause \/ OnStop \/ OnRepeat \/ OnShuffle
    \/ OnVolumeUp \/ OnVolumeDown \/ HandleInput
    \/ Tick \/ TrackEnds

SpecUI == Init /\ [][NextUI]_vars

\* the volume: every way of setting it, and the loads that hand it to the mixer
NextVolume ==
    \/ SetVolumeAny \/ OnVolumeUp \/ OnVolumeDown \/ Load \/ OnFileSelect

SpecVolume == Init /\ [][NextVolume]_vars

\* update_status as a function of what it reads: any paused flag, any answer
\* of get_busy() (a pygame whose get_busy() stays true for a paused stream
\* gives paused together with "playing"), any current_file of the directory
InitStatus ==
    \E listing \in Listings :
        /\ playlist = get_audio_files(listing)
        /\ file_list = Filter(listing)
        /\ current_file \in {None} \cup Range(playlist)
        /\ paused \in BOOLEAN
        /\ volume \in VolMin..VolMax
        /\ repeat \in BOOLEAN
        /\ shuffle = FALSE
        /\ current_index \in RandIndex
        /\ status = [phase |-> "Stopped", file |-> None]
        /\ m_loaded = current_file
        /\ m_state \in {"idle", "playing", "paused"}
        /\ m_volume = volume
        /\ m_pos = PosUnset
        /\ calls = <<>>
        /\ fault = NoFault
        /\ result = "None"
        /\ running = TRUE

UpdateStatus == Callback(update_status(S))

NextStatus == UpdateStatus

SpecStatus == InitStatus /\ [][NextStatus]_vars

\* ------------------------------------------------------------ claims
\* the fields of the AudioPlayer
player == <<current_file, paused, volume, repeat, shuffle, playlist,
            current_index>>

\* the state of the mixer
mixer == <<m_loaded, m_state, m_volume, m_pos>>

Cmds == [i \in DOMAIN calls |-> calls[i].cmd]

\* C1: on a non-empty playlist current_index is an index of the playlist after
\* any sequence of operations of the AudioPlayer.
C1_IndexInRange ==
    playlist /= <<>> => current_index \in 0..(Len(playlist) - 1)

\* a next_track or previous_track has loaded and started the last track of a
\* playlist of several
C1_Witness ==
    /\ Len(playlist) >= 2
    /\ current_index = Len(playlist) - 1
    /\ Cmds = <<"load", "set_volume", "play">>

\* C2: on an empty playlist next_track and previous_track are no-ops, with
\* shuffle on or off: no exception, no field of the AudioPlayer changed, no
\* command sent to the mixer.
C2_EmptyPlaylistNoOp ==
    [][(playlist = <<>> /\ (NextTrack \/ PreviousTrack))
          => (fault' = NoFault /\ calls' = <<>> /\ UNCHANGED player)]_vars

\* C3: the volume stays within [0.0, 1.0] whatever set_volume is given and
\* however often the volume buttons are used; volume-down at the minimum
\* leaves the minimum and volume-up at the maximum leaves the maximum.
C3_VolumeClamped ==
    /\ [](VolMin <= volume /\ volume <= VolMax)
    /\ [][/\ (OnVolumeDown /\ volume = VolMin) => volume' = VolMin
          /\ (OnVolumeUp /\ volume = VolMax) => volume' = VolMax]_vars

\* a set_volume has just left the volume at the minimum
C3_Witness == volume = VolMin /\ calls = <<Call("set_volume", VolMin)>>

\* C4: a load the mixer refuses returns False, raises nothing and leaves every
\* field of the AudioPlayer as it was.
C4_FailedLoadKeepsState ==
    [][Cmds' = <<"load">>
          => (result' = "False" /\ fault' = NoFault /\ UNCHANGED player)]_vars

\* a load was refused before any file was ever loaded
C4_Witness ==
    result = "False" /\ Cmds = <<"load">> /\ current_file = None

\* C5: right after a successful load the paused flag is false and
\* current_file is the file the mixer holds.
C5_LoadClearsPaused ==
    result = "True" => (~paused /\ current_file = m_loaded)

\* C6: with no track loaded play sends nothing to the mixer, raises nothing
\* and changes no state.
C6_PlayWithoutTrackNoOp ==
    [][(current_file = None /\ Play)
          => (calls' = <<>> /\ fault' = NoFault /\ UNCHANGED <<player, mixer>>)]_vars

\* C7: a load that succeeds followed by play (next_track, previous_track, the
\* selection of a file) leaves the mixer playing the file just loaded, with
\* paused false.
C7_LoadThenPlayPlays ==
    (Len(calls) = 3 /\ Cmds[1] = "load" /\ Cmds[2] = "set_volume")
        => (m_state = "playing" /\ ~paused /\ m_loaded = current_file)

\* C8: pause acts only when the mixer is playing and paused is false: it then
\* pauses the mixer and sets paused; otherwise it sends nothing to the mixer
\* and changes nothing.
C8_PauseFrame ==
    [][Pause =>
          IF music_get_busy(S) /\ ~paused
          THEN /\ paused' /\ m_state' = "paused" /\ Cmds' = <<"pause">>
               /\ UNCHANGED <<current_file, volume, repeat, shuffle, playlist,
                              current_index, m_loaded, m_volume, m_pos>>
          ELSE calls' = <<>> /\ UNCHANGED <<player, mixer>>]_vars

\* pause has just paused the mixer
C8_Witness == paused /\ m_state = "paused" /\ Cmds = <<"pause">>

\* no element of s sorts before an earlier one
IsSorted(s) == \A i, j \in DOMAIN s : i < j => ~StrLess(s[j], s[i])

\* the paths scanned at start-up, in the order of the scan
Scanned == JoinAll(file_list)

\* s holds the files of t, each as often
SameFiles(s, t) ==
    /\ Len(s) = Len(t)
    /\ \A f \in Range(s) \cup Range(t) :
           Cardinality({i \in DOMAIN s : s[i] = f})
               = Cardinality({i \in DOMAIN t : t[i] = f})

\* C9: whenever a toggle_shuffle switches shuffle off the playlist becomes the
\* sorted sequence of the files scanned at start-up, and it keeps that order
\* through every other operation for as long as shuffle stays off.
C9_UnshuffleSorts ==
    [][~shuffle' =>
          IF shuffle
          THEN IsSorted(playlist') /\ SameFiles(playlist', Scanned)
          ELSE playlist' = playlist]_vars

\* shuffle is off and the playlist is no longer in the order of the scan:
\* a toggle_shuffle has sorted it
C9_Witness == ~shuffle /\ playlist /= Scanned /\ IsSorted(playlist)

\* C10: with shuffle off the playlist is sorted by path, from the initial
\* state on and whatever order the scan returned the files in.
C10_SortedWhenNotShuffled == ~shuffle => IsSorted(playlist)

C12_ToggleShuffleFrame ==
    [][ToggleShuffle =>
          /\ shuffle' = ~shuffle
          /\ SameFiles(playlist', playlist)
          /\ calls' = <<>>
          /\ UNCHANGED <<current_file, current_index, paused, volume, repeat,
                         mixer>>]_vars

\* after a toggle the track under current_index is not the file loaded
C12_Witness ==
    /\ shuffle /\ calls = <<>>
    /\ current_file /= None
    /\ playlist[current_index + 1] /= current_file
    /\ current_file \in Range(playlist)

\* the last step was a next_track or previous_track whose load succeeded
Advanced ==
    Len(calls) = 3 /\ Cmds[1] = "load" /\ Cmds[2] = "set_volume"

\* C13 as stated: after next_track and then toggle_shuffle, the status names
\* the file that is now at playlist[current_index].
C13_StatusFollowsIndex ==
    [][(Advanced /\ ToggleShuffle) =>
          StatusOf(S)'.file = basename(playlist'[current_index' + 1])]_vars

\* C13: after next_track and then toggle_shuffle, the status names the file
\* next_track loaded, the one that was at playlist[current_index] before the
\* toggle, whatever the toggle has put at that index.
C13_StatusKeepsLoadedFile ==
    [][(Advanced /\ ToggleShuffle) =>
          /\ StatusOf(S)'.file = basename(playlist[current_index + 1])
          /\ StatusOf(S)'.file = basename(current_file')]_vars

\* after a toggle the status names a file other than the one under
\* current_index
C13_Witness ==
    /\ shuffle /\ calls = <<>>
    /\ current_file /= None
    /\ current_file \in Range(playlist)
    /\ StatusOf(S).file /= basename(playlist[current_index + 1])

\* the position, in milliseconds, that is delta seconds from the mixer's
\* clock, and 0 when that lies before the start
Target(delta) ==
    IF m_pos + delta * 1000 < 0 THEN 0 ELSE m_pos + delta * 1000

\* C14: seek without a file loaded sends the mixer nothing; with a file loaded
\* it sends one set_pos, to the reported position plus the delta or to 0 when
\* that is negative; either way no field of the AudioPlayer changes.
C14_SeekClamped ==
    [][Seek =>
          /\ UNCHANGED player
          /\ IF current_file = None
             THEN calls' = <<>> /\ UNCHANGED mixer
             ELSE /\ Len(calls') = 1
                  /\ calls'[1].cmd = "set_pos"
                  /\ calls'[1].arg >= 0
                  /\ calls'[1].arg \in
                         {Target(-SeekSeconds), Target(SeekSeconds)}]_vars

\* a seek back by more than the time played asked for position 0
C14_Witness ==
    /\ current_file /= None
    /\ m_pos > 0 /\ m_pos < SeekSeconds * 1000
    /\ calls = <<Call("set_pos", 0)>>

\* C15 as stated: no failure of the mixer leaves play, pause, stop or seek as
\* an exception, so none reaches the main loop and ends it.
C15_NoUncaughtFault ==
    fault /= "pygame.error" /\ (~running => fault = "ExitMainLoop")

\* C16 as stated: when the load inside next_track or previous_track fails,
\* current_index and current_file keep their values and the mixer is not
\* told to play.
C16_FailedAdvanceKeepsState ==
    [][((NextTrack \/ PreviousTrack)
          /\ Len(calls') >= 1 /\ Cmds'[1] = "load"
          /\ ~(Len(calls') >= 2 /\ Cmds'[2] = "set_volume")) =>
          /\ current_index' = current_index
          /\ current_file' = current_file
          /\ Cmds' = <<"load">>]_vars

\* the mixer was told to play or to stop in the last step
ToldToPlayOrStop ==
    \E i \in DOMAIN calls : Cmds[i] \in {"play", "unpause", "stop"}

\* C17: paused becomes true only in a pause() that pauses the mixer; every
\* step that tells the mixer to play or to stop leaves paused false, and so
\* do play() and stop() from every state.
C17_PausedOnlyByPause ==
    [][/\ (paused' /\ ~paused) =>
              (Pause /\ Cmds' = <<"pause">> /\ m_state' = "paused")
       /\ ToldToPlayOrStop' => ~paused'
       /\ (Play \/ Stop) => ~paused']_vars

\* play() has resumed a paused stream and cleared the flag
C17_Witness ==
    ~paused /\ Cmds = <<"unpause">> /\ m_state = "playing"

\* the part of a path after its last separator
LastPart(p) ==
    LET k == CHOOSE k \in 1..Len(p) :
                 p[k] = Sep /\ \A j \in (k + 1)..Len(p) : p[j] /= Sep
    IN  SubSeq(p, k + 1, Len(p))

\* C18: update_status shows Paused whenever paused is set, whatever the mixer
\* answers, else Playing when the mixer is busy, else Stopped; it names the
\* file's base name exactly when current_file is set; and it changes nothing
\* of the AudioPlayer or the mixer.
C18_StatusIsPureView ==
    [][UpdateStatus =>
          /\ status'.phase = IF paused THEN "Paused"
                             ELSE IF m_state = "playing" THEN "Playing"
                             ELSE "Stopped"
          /\ status'.file = IF current_file = None THEN None
                            ELSE LastPart(current_file)
          /\ calls' = <<>>
          /\ UNCHANGED <<player, mixer>>]_vars

\* the status shown for a paused player whose mixer still answers busy
C18_Witness ==
    /\ paused /\ m_state = "playing"
    /\ status.phase = "Paused"
    /\ status.file /= None

\* C19: the playlist always holds exactly the files found by the scan at
\* start-up, each as often as the scan found it, in some order.
C19_PlaylistIsPermutation == SameFiles(playlist, Scanned)

\* the playlist in an order other than the scan's
C19_Witness ==
    shuffle /\ Len(playlist) >= 2 /\ playlist /= Scanned

\* C20: the mixer's volume always equals the stored volume, and every load
\* that succeeds hands the stored volume to the mixer again.
C20_MixerVolumeInStep ==
    /\ [](m_volume = volume)
    /\ [][(Load /\ result' = "True") =>
             /\ Len(calls') = 2
             /\ calls'[2] = Call("set_volume", volume')
             /\ m_volume' = volume']_vars

\* a file loaded at a lowered volume, which the mixer was handed again
C20_Witness ==
    /\ volume < VolMax /\ m_volume = volume
    /\ result = "True"
    /\ calls = <<Call("load", 0), Call("set_volume", volume)>>

====
